---- MODULE Spec2Model ----
(***************************************************************************)
(* Model of nutils/debug.py: the Frame wrapper, the frame-chain collectors *)
(* (frames_from_traceback, frames_from_callstack), the Explorer command    *)
(* loop (a cmd.Cmd subclass) and the HTML post-mortem writer (write_html). *)
(*                                                                         *)
(* Texts are sequences of tokens; a token is one character of program data *)
(* ("<", ">", "a", ...) or one piece of markup written by the program as a *)
(* unit.  Python's None and 0 are both modelled as 0 where the code only   *)
(* tests truthiness.                                                       *)
(***************************************************************************)
EXTENDS Integers, Sequences, FiniteSets, TLC

\* ------------------------------------------------------------------------
\* Bounds of the model
\* ------------------------------------------------------------------------
MaxFrames == 3        \* longest frame chain of an Explorer session
MaxCmds == 2          \* the command counter is exact below this

\* ------------------------------------------------------------------------
\* Python helpers
\* ------------------------------------------------------------------------
Max(a, b) == IF a >= b THEN a ELSE b
Min(a, b) == IF a <= b THEN a ELSE b

SeqsUpTo(S, n) == UNION { [1..k -> S] : k \in 0..n }

\* seq[:n] for n >= 0
PyPrefix(seq, n) == SubSeq(seq, 1, Min(n, Len(seq)))

\* seq[i] is defined (Python index, negative counts from the end)
PyInRange(seq, i) == -Len(seq) <= i /\ i < Len(seq)

\* seq[i] for an index in range
PyGet(seq, i) == IF i < 0 THEN seq[Len(seq) + i + 1] ELSE seq[i + 1]

\* ------------------------------------------------------------------------
\* Execution contexts (Python frame objects) and their attributes
\* ------------------------------------------------------------------------
FrameObjs == {"outer", "middle", "inner"}

\* a value whose str() raises
BadValue == <<"unprintable">>

\* frame.f_lineno: the line the context is executing now
F_lineno(fo) ==
  CASE fo = "outer"  -> 1
    [] fo = "middle" -> 2
    [] OTHER         -> 3

\* frame.f_locals.iteritems(): (name, value) pairs in the dict's order
F_locals(fo) ==
  CASE fo = "outer"  -> << >>
    [] fo = "middle" -> << <<"x", <<"1">> >> >>
    [] OTHER         -> << <<"x", <<"<", "s", ">">> >>, <<"yy", BadValue>> >>

\* frame.f_globals
F_globals(fo) == << <<"yy", <<"g">> >> >>

NameLen(name) == IF name = "yy" THEN 2 ELSE 1

\* Frame.__init__: lineno defaults to the context's current line
Frame(frame, lineno) ==
  [frame |-> frame, lineno |-> IF lineno = 0 THEN F_lineno(frame) ELSE lineno]

NoFrame == [frame |-> "", lineno |-> 0]

\* ------------------------------------------------------------------------
\* Text: Python string operations on token sequences
\* ------------------------------------------------------------------------
White == {" ", "\t", "\n"}

Reverse(seq) == [i \in 1..Len(seq) |-> seq[Len(seq) + 1 - i]]

RECURSIVE LStrip(_)
LStrip(s) == IF s # << >> /\ Head(s) \in White THEN LStrip(Tail(s)) ELSE s
RStrip(s) == Reverse(LStrip(Reverse(s)))
Strip(s) == RStrip(LStrip(s))

StartsWith(s, c) == s # << >> /\ s[1] = c
EndsWith(s, c) == s # << >> /\ s[Len(s)] = c

\* s[n:] for n >= 0
PyFrom(s, n) == SubSeq(s, n + 1, Len(s))

Spaces(n) == [i \in 1..n |-> " "]

\* s.splitlines()
RECURSIVE SplitLines(_)
SplitLines(s) ==
  IF s = << >> THEN << >>
  ELSE LET nl == { i \in 1..Len(s) : s[i] = "\n" }
       IN  IF nl = {} THEN << s >>
           ELSE LET k == CHOOSE i \in nl : \A j \in nl : i <= j
                IN  << SubSeq(s, 1, k - 1) >> \o SplitLines(SubSeq(s, k + 1, Len(s)))

\* sep.join(parts)
RECURSIVE Join(_, _)
Join(sep, parts) ==
  IF parts = << >> THEN << >>
  ELSE IF Len(parts) = 1 THEN parts[1]
  ELSE parts[1] \o sep \o Join(sep, Tail(parts))

\* ------------------------------------------------------------------------
\* Frame: code attributes, location, context, source
\* ------------------------------------------------------------------------
\* the lines of frame.f_code.co_filename, as linecache holds them
Files(fo) ==
  CASE fo = "outer"  -> << <<"g", "\n">> >>
    [] fo = "middle" -> << <<"@", "d", "\n">>,
                           <<"d", "e", "f", " ", "g", ":", " ", "f", "\n">> >>
    [] fo = "inner"  -> << <<"d", "e", "f", " ", "f", ":", "\n">>,
                           <<" ", " ", "i", "f", " ", "a", "<", "b", ":", "\n">>,
                           <<" ", " ", " ", " ", "r", "e", "t", "u", "r", "n", " ", "x", "\n">> >>
    [] fo = "method" -> << <<" ", " ", "@", "d", "\n">>,
                           <<"\n">>,
                           <<" ", " ", "d", "e", "f", " ", "m", ":", " ", "f", "\n">> >>
    [] OTHER         -> << >>

Co_filename(fo) == fo
Co_firstlineno(fo) == 1
Co_name(fo) ==
  CASE fo = "outer"  -> <<"<", "module", ">">>
    [] fo = "middle" -> <<"g">>
    [] fo = "method" -> <<"m">>
    [] OTHER         -> <<"f">>

\* linecache.getline: '' when the file or the line is not there
LineOf(file, lineno) ==
  IF 1 <= lineno /\ lineno <= Len(file) THEN file[lineno] ELSE << >>

\* Frame.getline
getline(f, lineno) == LineOf(Files(f.frame), lineno)

\* Frame._name: no class of the module owns the code
Name(fo) == Co_name(fo)

\* Frame.where
where(f) ==
  <<"File \"", Co_filename(f.frame), "\", line ", ToString(f.lineno), ", in ">>
    \o Name(f.frame)

\* Frame.context
context(f) ==
  <<" ", " ">> \o where(f) \o <<"\n", " ", " ", " ", " ">>
    \o Strip(getline(f, f.lineno))

\* the `while True` loop of Frame.source, entered after line `lineno`
RECURSIVE SourceScan(_, _, _, _, _, _)
SourceScan(file, lineno0, indent, src, linebreak, cursor) ==
  LET lineno == lineno0 + 1
      raw    == LineOf(file, lineno)
      isComment == StartsWith(LStrip(PyPrefix(raw, indent + 1)), "#")
      line   == IF isComment THEN Spaces(indent) \o LStrip(raw) ELSE raw
  IN  IF ~isComment /\ (raw = << >> \/ (Strip(PyPrefix(raw, indent + 1)) # << >> /\ ~linebreak))
        THEN src
        ELSE SourceScan(file, lineno, indent,
               src \o (IF lineno = cursor THEN <<">">> \o PyFrom(line, indent + 1)
                       ELSE PyFrom(line, indent)),
               EndsWith(RStrip(line), "\\"), cursor)

\* the `while line[indent] == '@'` loop of Frame.source; line[indent] raises
\* IndexError past the end of the line
RECURSIVE SourceDecorators(_, _, _, _, _, _)
SourceDecorators(file, lineno, line, indent, src, cursor) ==
  IF indent >= Len(line)
    THEN [exc |-> "IndexError", text |-> << >>]
    ELSE IF line[indent + 1] = "@"
      THEN LET next == LineOf(file, lineno + 1)
           IN  SourceDecorators(file, lineno + 1, next, indent,
                                src \o PyFrom(next, indent), cursor)
      ELSE [exc |-> "none",
            text |-> RStrip(SourceScan(file, lineno, indent, src, FALSE, cursor))]

NotAvailable == <<"<", "not avaliable", ">">>

\* Frame.source for a file, the code's first line and the cursor line
SourceOf(file, firstlineno, cursor) ==
  LET line == LineOf(file, firstlineno)
  IN  IF line = << >>
        THEN [exc |-> "none", text |-> NotAvailable]
        ELSE LET indent == Len(line) - Len(LStrip(line))
             IN  SourceDecorators(file, firstlineno, line, indent,
                                  PyFrom(line, indent), cursor)

source(f) == SourceOf(Files(f.frame), Co_firstlineno(f.frame), f.lineno)

\* ------------------------------------------------------------------------
\* Explorer: state
\* ------------------------------------------------------------------------
VARIABLES
  frames,    \* self.frames: the chain, oldest call first
  index,     \* self.index: the focus (Python index into frames)
  msg,       \* self.msg
  lastcmd,   \* self.lastcmd of cmd.Cmd: the last non-empty line
  line,      \* cmdloop's local `line`: the line of the last iteration
  out,       \* what the last iteration printed
  raised,    \* the error class the last command raised, "none" if none
  pc,        \* "loop": reading; "stopped": cmdloop returned; "died": an
             \* error left cmdloop
  eof,       \* standard input is at end of input
  ncmds      \* number of lines handled so far; from MaxCmds on it
             \* alternates between MaxCmds and MaxCmds + 1

evars == <<frames, index, msg, lastcmd, line, out, raised, pc, eof, ncmds>>

\* ------------------------------------------------------------------------
\* Frame-chain collectors: state
\* ------------------------------------------------------------------------
VARIABLES
  cin,       \* the call being run: which collector, its argument, the
             \* thread's live stack (innermost first)
  cpc,       \* "idle", "call": called, "done": returned
  cresult    \* the value returned

cvars == <<cin, cpc, cresult>>

\* ------------------------------------------------------------------------
\* write_html: state
\* ------------------------------------------------------------------------
VARIABLES
  hin,       \* exc_info: repr(exc_value) and the traceback
  hpc,       \* "idle", "start", "sections", "done", "died"
  hframes,   \* the local `frames`
  hleft,     \* frames the `for f in reversed(frames)` loop has yet to write
  hout,      \* the sink: the out.write calls so far, in order
  hflushed   \* out.flush() was called

hvars == <<hin, hpc, hframes, hleft, hout, hflushed>>

\* ------------------------------------------------------------------------
\* Frame.source called on its own: state
\* ------------------------------------------------------------------------
VARIABLES
  sin,       \* the call: the file's lines, co_firstlineno, the cursor line
  spc,       \* "idle", "call", "done"
  sres       \* the outcome: the error raised ("none") and the text returned

svars == <<sin, spc, sres>>

\* ------------------------------------------------------------------------
\* Explorer.completedefault: state
\* ------------------------------------------------------------------------
VARIABLES
  ttext,     \* the text being completed, split at its dots
  tres       \* the outcome: the error raised ("none") and the names returned

tvars == <<ttext, tres>>

\* ------------------------------------------------------------------------
\* Config: state
\* ------------------------------------------------------------------------
VARIABLES
  cfg,       \* the module's __dict__: setting -> value (Absent: not set)
  ctxs,      \* the override contexts entered and not yet exited, in order
             \* of entry; each holds its local `old`
  cfg0,      \* the configuration before the first entry
  nested,    \* every exit so far left the context entered last
  kres       \* how the last operation ended: "none", "entered", "exited",
             \* "raised" (the body's error, re-raised), "AttributeError"

kvars == <<cfg, ctxs, cfg0, nested, kres>>

xvars == <<svars, tvars, kvars>>

vars == <<evars, cvars, hvars, xvars>>

NoSource == [file |-> << >>, firstlineno |-> 0, lineno |-> 0]
NoOutcome == [exc |-> "none", text |-> << >>]

SourceIdle ==
  /\ sin = NoSource
  /\ spc = "idle"
  /\ sres = NoOutcome

NoMatches == [exc |-> "none", names |-> {}]

CompleteIdle ==
  /\ ttext = << >>
  /\ tres = NoMatches

ConfigIdle ==
  /\ cfg = << >>
  /\ ctxs = << >>
  /\ cfg0 = << >>
  /\ nested = TRUE
  /\ kres = "none"

OthersIdle == SourceIdle /\ CompleteIdle /\ ConfigIdle

\* write_html is not running
NoExcInfo == [repr |-> << >>, tb |-> << >>]

HtmlIdle ==
  /\ hin = NoExcInfo
  /\ hpc = "idle"
  /\ hframes = << >>
  /\ hleft = 0
  /\ hout = << >>
  /\ hflushed = FALSE

Exprs == {"x", "yy", "1/0", "exit()"}

Line(cmd, arg) == [cmd |-> cmd, arg |-> arg]
EmptyLine == Line("", "")
EOFLine == Line("EOF", "")
NoLine == Line("-", "")

Msgs == {"Suspended.", "ValueError('<s>',)"}

Chains == SeqsUpTo({ Frame(fo, 0) : fo \in FrameObjs }, MaxFrames)

\* ------------------------------------------------------------------------
\* Explorer: what a command prints and returns
\* ------------------------------------------------------------------------
\* one printed line.  A line that shows a frame's context, location or
\* source names the frame in f; its characters are context(f), where(f) and
\* source(f).text
OutLine(kind, mark, f, text) == [kind |-> kind, mark |-> mark, f |-> f, text |-> text]

\* a handler's outcome: the new focus, the lines printed, the return value
\* (TRUE stops the loop) and the error class raised ("none": returned)
Ok(i, o, r) == [index |-> i, out |-> o, ret |-> r, exc |-> "none"]
Raise(i, o, k) == [index |-> i, out |-> o, ret |-> FALSE, exc |-> k]

\* the for loop of show_context: one line per frame it enumerates
show_context(fr, idx, m) ==
  [i \in 1..Len(fr) |-> OutLine("context", IF i - 1 = idx THEN "*" ELSE " ", fr[i], << >>)]
    \o << OutLine("msg", " ", NoFrame, <<m>>) >>

\* a list view that puts the focus back on the innermost frame
do_l_refocus ==
  Ok(Len(frames) - 1, show_context(frames, Len(frames) - 1, msg), FALSE)

\* Explorer.__init__: self.index = len(frames) - 1
InitialIndexZero(fr) == 0
InitialIndex(fr) == Len(fr) - 1

do_l == Ok(index, show_context(frames, index, msg), FALSE)

do_q_noreturn == Ok(index, << OutLine("text", "", NoFrame, <<"quit.">>) >>, FALSE)
do_q == Ok(index, << OutLine("text", "", NoFrame, <<"quit.">>) >>, TRUE)

do_u_unguarded == Ok(index - 1, show_context(frames, index - 1, msg), FALSE)

do_u ==
  IF index > 0
    THEN Ok(index - 1, show_context(frames, index - 1, msg), FALSE)
    ELSE Ok(index, << >>, FALSE)

do_d_unguarded == Ok(index + 1, show_context(frames, index + 1, msg), FALSE)

do_d ==
  IF index < Len(frames) - 1
    THEN Ok(index + 1, show_context(frames, index + 1, msg), FALSE)
    ELSE Ok(index, << >>, FALSE)

\* do_s: `f` is the loop variable; it is unbound when the slice is empty
do_s ==
  LET sel == PyPrefix(frames, index + 1)
      wh  == [i \in 1..Len(sel) |-> OutLine("where", "", sel[i], << >>)]
  IN  IF sel = << >>
        THEN Raise(index, << >>, "UnboundLocalError")
        ELSE LET src == source(sel[Len(sel)])
             IN  IF src.exc # "none" THEN Raise(index, wh, src.exc)
                 ELSE Ok(index,
                         wh \o << OutLine("source", "", sel[Len(sel)], << >>) >>,
                         FALSE)

\* the print loop of do_w: str(value) of an unprintable value raises after
\* the items before it were printed
PrintLocals(items, maxlen) ==
  LET bad == { i \in 1..Len(items) : items[i][2] = BadValue }
      n   == IF bad = {} THEN Len(items)
             ELSE (CHOOSE i \in bad : \A j \in bad : i <= j) - 1
      o   == [i \in 1..n |-> OutLine("local", items[i][1], NoFrame,
                                      <<ToString(maxlen)>> \o items[i][2])]
  IN  IF bad = {} THEN Ok(index, o, FALSE) ELSE Raise(index, o, "RuntimeError")

do_w ==
  IF ~PyInRange(frames, index)
    THEN Raise(index, << >>, "IndexError")
    ELSE LET items == F_locals(PyGet(frames, index).frame)
         IN  IF items = << >>
               THEN Raise(index, << >>, "ValueError")   \* max() of nothing
               ELSE PrintLocals(items,
                      CHOOSE m \in { NameLen(items[i][1]) : i \in 1..Len(items) } :
                        \A i \in 1..Len(items) : NameLen(items[i][1]) <= m)

Lookup(pairs, name) ==
  LET hit == { i \in 1..Len(pairs) : pairs[i][1] = name }
  IN  IF hit = {} THEN << >> ELSE << pairs[CHOOSE i \in hit : TRUE][2] >>

\* eval(arg, frame.f_globals, frame.f_locals): locals shadow globals
Eval(arg, fo) ==
  CASE arg = "1/0"    -> [exc |-> "ZeroDivisionError", val |-> << >>]
    [] arg = "exit()" -> [exc |-> "SystemExit", val |-> << >>]
    [] OTHER ->
         LET l == Lookup(F_locals(fo), arg)
             g == Lookup(F_globals(fo), arg)
         IN  IF l # << >> THEN [exc |-> "none", val |-> l[1]]
             ELSE IF g # << >> THEN [exc |-> "none", val |-> g[1]]
             ELSE [exc |-> "NameError", val |-> << >>]

\* do_p: print eval(...) writes str(value)
do_p(arg) ==
  IF ~PyInRange(frames, index)
    THEN Raise(index, << >>, "IndexError")
    ELSE LET v == Eval(arg, PyGet(frames, index).frame)
         IN  IF v.exc # "none" THEN Raise(index, << >>, v.exc)
             ELSE IF v.val = BadValue THEN Raise(index, << >>, "RuntimeError")
             ELSE Ok(index, << OutLine("value", "", NoFrame, v.val) >>, FALSE)

\* do_pp: pprint writes repr(value)
do_pp(arg) ==
  IF ~PyInRange(frames, index)
    THEN Raise(index, << >>, "IndexError")
    ELSE LET v == Eval(arg, PyGet(frames, index).frame)
         IN  IF v.exc # "none" THEN Raise(index, << >>, v.exc)
             ELSE Ok(index, << OutLine("repr", "", NoFrame, v.val) >>, FALSE)

\* cmd.Cmd.do_help and cmd.Cmd.default, inherited
do_help == Ok(index, << OutLine("text", "", NoFrame, <<"help">>) >>, FALSE)
default(l) == Ok(index, << OutLine("unknown", "", NoFrame, <<l.cmd>>) >>, FALSE)

\* cmd.Cmd.onecmd for a non-empty line: getattr(self, 'do_' + cmd), else
\* default
Dispatch(l) ==
  CASE l.cmd = "l"    -> do_l
    [] l.cmd = "s"    -> do_s
    [] l.cmd = "q"    -> do_q
    [] l.cmd = "u"    -> do_u
    [] l.cmd = "d"    -> do_d
    [] l.cmd = "w"    -> do_w
    [] l.cmd = "p"    -> do_p(l.arg)
    [] l.cmd = "pp"   -> do_pp(l.arg)
    [] l.cmd = "help" -> do_help
    [] OTHER          -> default(l)

\* cmd.Cmd.onecmd: an empty line repeats lastcmd (emptyline), if there is one
Cmd_onecmd(l) ==
  IF l = EmptyLine
    THEN IF lastcmd = EmptyLine THEN Ok(index, << >>, FALSE) ELSE Dispatch(lastcmd)
    ELSE Dispatch(l)

\* the classes `except Exception` catches
CatchesNothing(kind) == FALSE
IsException(kind) == kind # "SystemExit"

\* Explorer.onecmd: report an Exception and return None; anything else
\* propagates
onecmd(l) ==
  LET r == Cmd_onecmd(l)
      text == IF l = EmptyLine THEN lastcmd ELSE l
  IN  IF r.exc # "none" /\ IsException(r.exc)
        THEN [index |-> r.index,
              out |-> r.out \o << OutLine("error", r.exc, NoFrame, <<text.cmd, text.arg>>) >>,
              ret |-> FALSE, exc |-> "none", raised |-> r.exc]
        ELSE [index |-> r.index, out |-> r.out, ret |-> r.ret, exc |-> r.exc,
              raised |-> r.exc]

\* ------------------------------------------------------------------------
\* Frame-chain collectors
\* ------------------------------------------------------------------------
MaxLinks == 3         \* longest propagation chain
MaxLine == 3          \* largest recorded line number of a link
MaxStack == 3         \* most callers above the collector on the live stack
MaxDepth == 3         \* largest skip depth

\* a traceback link: tb_frame and tb_lineno (tb_next is the rest of the
\* sequence)
Links == [tb_frame : FrameObjs, tb_lineno : 1..MaxLine]

\* the live stack of the calling thread, innermost first: the collector's
\* own invocation, then its callers
Stacks == { <<"collector">> \o c : c \in SeqsUpTo(FrameObjs, MaxStack) }

NoCall == [fn |-> "none", tb |-> << >>, stack |-> << >>, depth |-> 0]

CollectIdle ==
  /\ cin = NoCall
  /\ cpc = "idle"
  /\ cresult = << >>

\* frames.append( Frame( tb.tb_frame, tb.tb_lineno ) )
TbFrameCurrentLine(link) == Frame(link.tb_frame, 0)
TbFrame(link) == Frame(link.tb_frame, link.tb_lineno)

\* while tb: frames.append(...); tb = tb.tb_next
RECURSIVE TbWalk(_, _)
TbWalk(tb, acc) ==
  IF tb = << >> THEN acc
  ELSE TbWalk(Tail(tb), Append(acc, TbFrame(Head(tb))))

frames_from_traceback(tb) == TbWalk(tb, << >>)

\* sys._getframe(depth): the frames from `depth` levels above the caller of
\* _getframe outward, empty when the stack is not that deep (ValueError)
GetFrame(stack, depth) ==
  IF depth < Len(stack) THEN SubSeq(stack, depth + 1, Len(stack)) ELSE << >>

\* while frame: frames.append( Frame( frame ) ); frame = frame.f_back
RECURSIVE CsWalk(_, _)
CsWalk(frame, acc) ==
  IF frame = << >> THEN acc
  ELSE CsWalk(Tail(frame), Append(acc, Frame(Head(frame), 0)))

\* return frames[::-1]
CsResultUnreversed(fr) == fr
CsResult(fr) == Reverse(fr)

frames_from_callstack(stack, depth) ==
  LET frame == GetFrame(stack, depth)
  IN  IF frame = << >> THEN << >>          \* except ValueError: return []
      ELSE CsResult(CsWalk(frame, << >>))

CallTraceback ==
  /\ cpc = "call"
  /\ cin.fn = "traceback"
  /\ cresult' = frames_from_traceback(cin.tb)
  /\ cpc' = "done"
  /\ UNCHANGED cin
  /\ UNCHANGED <<evars, hvars>>
  /\ UNCHANGED xvars

CallCallstack ==
  /\ cpc = "call"
  /\ cin.fn = "callstack"
  /\ cresult' = frames_from_callstack(cin.stack, cin.depth)
  /\ cpc' = "done"
  /\ UNCHANGED cin
  /\ UNCHANGED <<evars, hvars>>
  /\ UNCHANGED xvars

ExplorerIdle ==
  /\ frames = << >>
  /\ index = -1
  /\ msg = ""
  /\ lastcmd = EmptyLine
  /\ line = NoLine
  /\ out = << >>
  /\ raised = "none"
  /\ pc = "idle"
  /\ eof = FALSE
  /\ ncmds = 0

\* a call of frames_from_traceback(tb) or frames_from_callstack(depth)
CollectInit ==
  /\ \/ \E tb \in SeqsUpTo(Links, MaxLinks) :
          cin = [fn |-> "traceback", tb |-> tb, stack |-> << >>, depth |-> 0]
     \/ \E st \in Stacks, k \in 0..MaxDepth :
          cin = [fn |-> "callstack", tb |-> << >>, stack |-> st, depth |-> k]
  /\ cpc = "call"
  /\ cresult = << >>
  /\ ExplorerIdle
  /\ HtmlIdle
  /\ OthersIdle

CollectNext ==
  \/ CallTraceback
  \/ CallCallstack

CollectSpec == CollectInit /\ [][CollectNext]_vars

\* ------------------------------------------------------------------------
\* write_html
\* ------------------------------------------------------------------------
MaxHtmlLinks == 2     \* longest traceback rendered

\* the frames a rendered traceback runs through: those of an Explorer
\* session and a decorated method whose decorator line is followed by an
\* empty line
HtmlObjs == FrameObjs \cup {"method"}

HtmlLinks == [tb_frame : HtmlObjs, tb_lineno : 1..MaxLine]

\* repr(exc_value)
Reprs == { <<"E()">>, <<"E('", "<", "s", ">", "')">> }

\* one out.write call: what it writes, for which frame of `frames` (0: none)
W(part, k, text) == [part |-> part, k |-> k, text |-> text]

\* .replace('<','&lt;').replace('>','&gt;')
Escape(s) ==
  [i \in 1..Len(s) |-> IF s[i] = "<" THEN "&lt;" ELSE IF s[i] = ">" THEN "&gt;" ELSE s[i]]

WordChars ==
  {"a", "b", "c", "d", "e", "f", "g", "h", "i", "j", "k", "l", "m", "n", "o", "p",
   "q", "r", "s", "t", "u", "v", "w", "x", "y", "z", "_",
   "0", "1", "2", "3", "4", "5", "6", "7", "8", "9"}

Keywords ==
  { <<"d", "e", "f">>, <<"i", "f">>, <<"e", "l", "i", "f">>, <<"e", "l", "s", "e">>,
    <<"f", "o", "r">>, <<"w", "h", "i", "l", "e">>, <<"w", "i", "t", "h">>,
    <<"i", "n">>, <<"r", "e", "t", "u", "r", "n">> }

\* re.sub( r'\b(def|if|elif|else|for|while|with|in|return)\b', r'<b>\1</b>', s )
RECURSIVE Bold(_)
Bold(s) ==
  IF s = << >> THEN << >>
  ELSE IF Head(s) \notin WordChars THEN << Head(s) >> \o Bold(Tail(s))
  ELSE LET stop == { i \in 1..Len(s) : s[i] \notin WordChars }
           n    == IF stop = {} THEN Len(s)
                   ELSE (CHOOSE i \in stop : \A j \in stop : i <= j) - 1
           word == SubSeq(s, 1, n)
       IN  (IF word \in Keywords THEN <<"<b>">> \o word \o <<"</b>">> ELSE word)
             \o Bold(SubSeq(s, n + 1, Len(s)))

\* the body of `for line in f.source.splitlines()`
SourceWrite(k, srcline) ==
  IF StartsWith(srcline, ">")
    THEN W("source", k, <<"<span class=\"error\"> ">> \o Bold(Escape(Tail(srcline)))
                          \o <<"</span>\n">>)
    ELSE W("source", k, Bold(Escape(srcline)) \o <<"\n">>)

\* the body of `for key, val in f.frame.f_locals.iteritems()`
RowWrite(k, item) ==
  W("row", k, <<"<tr><td>", item[1], "</td><td>">>
                \o (IF item[2] = BadValue THEN <<"ERROR">> ELSE Escape(item[2]))
                \o <<"</td></tr>\n">>)

\* lines 244-250: collect the frames, write the banner and the list that
\* identifies the error
HtmlStart ==
  /\ hpc = "start"
  /\ LET fr == frames_from_traceback(hin.tb)
     IN  /\ hframes' = fr
         /\ hleft' = Len(fr)
         /\ hout' = hout \o
              << W("markup", 0, <<"<span class=\"info\">">>),
                 W("markup", 0, <<"\n<hr/>">>),
                 W("markup", 0, <<"<b>EXHAUSTIVE POST-MORTEM DUMP FOLLOWS</b>\n">>),
                 W("ident", 0, Join(<<"\n">>, << hin.repr >> \o
                                      [i \in 1..Len(fr) |-> context(fr[i])])),
                 W("markup", 0, <<"<hr/>\n">>) >>
  /\ hpc' = "sections"
  /\ UNCHANGED <<hin, hflushed>>
  /\ UNCHANGED <<evars, cvars>>
  /\ UNCHANGED xvars

\* lines 252-270: one pass of `for f in reversed(frames)`
HtmlSection ==
  /\ hpc = "sections"
  /\ hleft > 0
  /\ LET k   == hleft
         f   == hframes[k]
         loc == W("location", k, Head(SplitLines(context(f))) \o <<"\n">>)
         src == source(f)
         lines == SplitLines(src.text)
         items == F_locals(f.frame)
     IN  IF src.exc # "none"
           THEN /\ hout' = Append(hout, loc)
                /\ hpc' = "died"
                /\ UNCHANGED hleft
           ELSE /\ hout' = hout \o << loc >>
                     \o [i \in 1..Len(lines) |-> SourceWrite(k, lines[i])]
                     \o << W("markup", k, <<"\n\n">>),
                           W("markup", k, <<"<table border=\"1\" style=\"border:none; margin:0px; padding:0px;\">\n">>) >>
                     \o [i \in 1..Len(items) |-> RowWrite(k, items[i])]
                     \o << W("markup", k, <<"</table>\n">>),
                           W("markup", k, <<"<hr/>\n">>) >>
                /\ hleft' = hleft - 1
                /\ UNCHANGED hpc
  /\ UNCHANGED <<hin, hframes, hflushed>>
  /\ UNCHANGED <<evars, cvars>>
  /\ UNCHANGED xvars

\* lines 271-272
HtmlFinish ==
  /\ hpc = "sections"
  /\ hleft = 0
  /\ hout' = Append(hout, W("markup", 0, <<"</span>">>))
  /\ hflushed' = TRUE
  /\ hpc' = "done"
  /\ UNCHANGED <<hin, hframes, hleft>>
  /\ UNCHANGED <<evars, cvars>>
  /\ UNCHANGED xvars

\* a call write_html(out, exc_info) on an empty sink
HtmlInit ==
  /\ hin \in [repr : Reprs, tb : SeqsUpTo(HtmlLinks, MaxHtmlLinks)]
  /\ hpc = "start"
  /\ hframes = << >>
  /\ hleft = 0
  /\ hout = << >>
  /\ hflushed = FALSE
  /\ ExplorerIdle
  /\ CollectIdle
  /\ OthersIdle

HtmlNext ==
  \/ HtmlStart
  \/ HtmlSection
  \/ HtmlFinish

HtmlSpec == HtmlInit /\ [][HtmlNext]_vars

\* ------------------------------------------------------------------------
\* Explorer: the command loop
\* ------------------------------------------------------------------------
Init ==
  /\ frames \in Chains
  /\ msg \in Msgs
  /\ index = InitialIndex(frames)
  /\ lastcmd = EmptyLine
  /\ line = NoLine
  /\ out = << >>
  /\ raised = "none"
  /\ pc = "loop"
  /\ eof = FALSE
  /\ ncmds = 0
  /\ CollectIdle
  /\ HtmlIdle
  /\ OthersIdle

\* one iteration of cmd.Cmd.cmdloop on line l
Iterate(l) ==
  /\ pc = "loop"
  /\ LET r == onecmd(l)
     IN  /\ index' = r.index
         /\ out' = r.out
         /\ raised' = r.raised
         /\ pc' = IF r.exc # "none" THEN "died"
                  ELSE IF r.ret THEN "stopped" ELSE "loop"
  /\ line' = l
  /\ lastcmd' = IF l = EmptyLine THEN lastcmd
                ELSE IF l = EOFLine THEN EmptyLine ELSE l
  /\ ncmds' = IF ncmds <= MaxCmds THEN ncmds + 1 ELSE MaxCmds
  /\ UNCHANGED <<frames, msg>>
  /\ UNCHANGED <<cvars, hvars>>
  /\ UNCHANGED xvars

Typed(l) == ~eof /\ Iterate(l) /\ UNCHANGED eof

ReadList == Typed(Line("l", ""))
ReadSource == Typed(Line("s", ""))
ReadQuit == Typed(Line("q", ""))
ReadUp == Typed(Line("u", ""))
ReadDown == Typed(Line("d", ""))
ReadLocals == Typed(Line("w", ""))
ReadEval == \E e \in Exprs : Typed(Line("p", e))
ReadPrettyEval == \E e \in Exprs : Typed(Line("pp", e))
ReadHelp == Typed(Line("help", ""))
ReadUnknown == Typed(Line("x", ""))
ReadEmpty == Typed(EmptyLine)

\* raw_input raises EOFError: cmdloop handles the line 'EOF'
ReadEOF == Iterate(EOFLine) /\ eof' = TRUE

Next ==
  \/ ReadList
  \/ ReadSource
  \/ ReadQuit
  \/ ReadUp
  \/ ReadDown
  \/ ReadLocals
  \/ ReadEval
  \/ ReadPrettyEval
  \/ ReadHelp
  \/ ReadUnknown
  \/ ReadEmpty
  \/ ReadEOF

Spec == Init /\ [][Next]_vars

\* cmdloop is a sequential loop: while it has not stopped it takes its next
\* iteration
LiveSpec == Spec /\ WF_vars(Next)

\* ------------------------------------------------------------------------
\* Frame.source called on its own, over small files
\* ------------------------------------------------------------------------
MaxFileLen == 3       \* longest file, in lines

\* the lines a file is made of: decorator, definition and body lines at two
\* depths, a blank line, a comment in the first column, a line that ends
\* with the continuation marker
SrcLines ==
  { <<"@", "\n">>,
    <<"d", "\n">>,
    <<" ", "x", "\n">>,
    <<" ", "@", "\n">>,
    <<" ", " ", "y", "\n">>,
    <<"\n">>,
    <<"#", "\n">>,
    <<" ", "z", "\\", "\n">> }

\* a Frame over a code object of the file: Frame.__init__ keeps the cursor
\* line, Frame.source reads co_firstlineno
SourceInit ==
  /\ sin \in [file : SeqsUpTo(SrcLines, MaxFileLen),
              firstlineno : 1..MaxFileLen,
              lineno : 1..MaxFileLen]
  /\ spc = "call"
  /\ sres = NoOutcome
  /\ ExplorerIdle
  /\ CollectIdle
  /\ HtmlIdle
  /\ CompleteIdle
  /\ ConfigIdle

\* the property Frame.source is read
CallSource ==
  /\ spc = "call"
  /\ sres' = SourceOf(sin.file, sin.firstlineno, sin.lineno)
  /\ spc' = "done"
  /\ UNCHANGED sin
  /\ UNCHANGED <<evars, cvars, hvars, tvars, kvars>>

SourceNext == CallSource

SourceSpec == SourceInit /\ [][SourceNext]_vars

\* ------------------------------------------------------------------------
\* Explorer.completedefault
\* ------------------------------------------------------------------------
MaxSegments == 3      \* most dot-separated segments of a completed text

\* the characters of a name or of a typed segment
Chars(name) ==
  CASE name = ""   -> << >>
    [] name = "yy" -> <<"y", "y">>
    [] name = "up" -> <<"u", "p">>
    [] name = "un" -> <<"u", "n">>
    [] OTHER       -> << name >>

\* name.startswith(text)
NameStartsWith(name, text) ==
  /\ Len(Chars(text)) <= Len(Chars(name))
  /\ SubSeq(Chars(name), 1, Len(Chars(text))) = Chars(text)

\* dir(obj)
Dir(obj) == <<"un", "up">>

\* getattr(obj, attrname): the attribute "un" of the unprintable value
\* raises
GetAttr(obj, attrname) ==
  IF obj = BadValue /\ attrname = "un"
    THEN [exc |-> "AttributeError", val |-> << >>]
    ELSE [exc |-> "none", val |-> IF attrname = "up" THEN <<"g">> ELSE <<"1">>]

\* lines 197-199: f_globals updated with f_locals
MergedNamespace(fo) ==
  F_locals(fo) \o
    SelectSeq(F_globals(fo), LAMBDA p : Lookup(F_locals(fo), p[1]) = << >>)

\* lines 208-213: the attributes of obj that getattr returns
Attributes(obj) ==
  LET got == SelectSeq(Dir(obj), LAMBDA a : GetAttr(obj, a).exc = "none")
  IN  [i \in 1..Len(got) |-> << got[i], GetAttr(obj, got[i]).val >>]

\* the `while '.' in text` loop and the final list; text is the typed text
\* split at its dots, a completion is the list of its segments
RECURSIVE CompleteWalk(_, _, _)
CompleteWalk(objs, base, text) ==
  IF Len(text) > 1
    THEN LET obj == Lookup(objs, Head(text))
         IN  IF obj = << >> THEN {}
             ELSE CompleteWalk(Attributes(obj[1]), Append(base, Head(text)), Tail(text))
    ELSE { Append(base, objs[i][1]) :
             i \in { j \in 1..Len(objs) : NameStartsWith(objs[j][1], text[1]) } }

\* Explorer.completedefault
completedefault(fr, idx, text) ==
  IF ~PyInRange(fr, idx)
    THEN [exc |-> "IndexError", names |-> {}]
    ELSE [exc |-> "none",
          names |-> CompleteWalk(MergedNamespace(PyGet(fr, idx).frame), << >>, text)]

\* typed segments: names, prefixes of names, and "y", which is no name
CompSegments == {"", "x", "y", "yy", "up"}

CompTexts == SeqsUpTo(CompSegments, MaxSegments) \ { << >> }

\* a session at its prompt, the focus anywhere the commands can put it
CompleteInit ==
  /\ frames \in Chains
  /\ msg = "Suspended."
  /\ index \in IF frames = << >> THEN {-1} ELSE 0..(Len(frames) - 1)
  /\ lastcmd = EmptyLine
  /\ line = NoLine
  /\ out = << >>
  /\ raised = "none"
  /\ pc = "loop"
  /\ eof = FALSE
  /\ ncmds = 0
  /\ CompleteIdle
  /\ CollectIdle
  /\ HtmlIdle
  /\ SourceIdle
  /\ ConfigIdle

\* the completion key is pressed after `text`
TabComplete ==
  /\ pc = "loop"
  /\ \E text \in CompTexts :
       /\ ttext' = text
       /\ tres' = completedefault(frames, index, text)
  /\ UNCHANGED <<evars, cvars, hvars, svars, kvars>>

CompleteNext == TabComplete

CompleteSpec == CompleteInit /\ [][CompleteNext]_vars

\* ------------------------------------------------------------------------
\* Config: the override context
\* ------------------------------------------------------------------------
MaxCtx == 2           \* most override contexts entered and not yet exited

\* the marker of a setting that is not set
EMPTY == 0

\* the default of `verbose`
DefaultVerbose == 4

\* settings: one with a default and one the defaults do not hold.  Neither
\* is the name of an attribute of the class, so getattr reads __dict__
ConfigKeys == {"verbose", "extra"}

ConfigVals == {2, DefaultVerbose}

\* the keyword arguments of a call config(**data): `verbose` is given a
\* new value or its default, `extra` one value
ConfigData ==
  { data \in UNION { [D -> ConfigVals] : D \in SUBSET ConfigKeys } :
      "extra" \in DOMAIN data => data["extra"] = 2 }

\* an `old` that forgets the settings that were not set
OldOfSet(c, data) ==
  [k \in { j \in DOMAIN data : c[j] # data[j] /\ c[j] # EMPTY } |-> c[k]]

\* lines 69-74: `old` after the loop over data.items()
OldOf(c, data) == [k \in { j \in DOMAIN data : c[j] # data[j] } |-> c[k]]

\* lines 71-75: the configuration after the loop
Override(c, data) ==
  [k \in ConfigKeys |-> IF k \in DOMAIN data THEN data[k] ELSE c[k]]

\* lines 78-82: the configuration after the `finally` block
Restore(c, old) ==
  [k \in ConfigKeys |-> IF k \in DOMAIN old THEN old[k] ELSE c[k]]

\* object.__delattr__ of a setting that is not set raises
RestoreFails(c, old) == \E k \in DOMAIN old : old[k] = EMPTY /\ c[k] = EMPTY

RemoveAt(seq, i) == SubSeq(seq, 1, i - 1) \o SubSeq(seq, i + 1, Len(seq))

\* the module as line 87 builds it
ConfigInit ==
  /\ cfg = [k \in ConfigKeys |-> IF k = "verbose" THEN DefaultVerbose ELSE EMPTY]
  /\ ctxs = << >>
  /\ cfg0 = cfg
  /\ nested = TRUE
  /\ kres = "none"
  /\ ExplorerIdle
  /\ CollectIdle
  /\ HtmlIdle
  /\ SourceIdle
  /\ CompleteIdle

\* `with config(**data):` reaches its body (lines 64-76).  `before` keeps
\* the configuration at entry for the properties; the code has no such field
EnterContext ==
  /\ Len(ctxs) < MaxCtx
  /\ \E data \in ConfigData :
       /\ ctxs' = Append(ctxs, [data |-> data, old |-> OldOf(cfg, data),
                                 before |-> cfg])
       /\ cfg' = Override(cfg, data)
  /\ cfg0' = IF ctxs = << >> THEN cfg ELSE cfg0
  /\ nested' = IF ctxs = << >> THEN TRUE ELSE nested
  /\ kres' = "entered"
  /\ UNCHANGED <<evars, cvars, hvars, svars, tvars>>

\* context i is exited (lines 77-82): in a thread or a generator of its own
\* it need not be the one entered last
ExitContext(i, how) ==
  /\ i \in 1..Len(ctxs)
  /\ cfg' = Restore(cfg, ctxs[i].old)
  /\ ctxs' = RemoveAt(ctxs, i)
  /\ nested' = (nested /\ i = Len(ctxs))
  /\ kres' = IF RestoreFails(cfg, ctxs[i].old) THEN "AttributeError in exit"
             ELSE how
  /\ UNCHANGED cfg0
  /\ UNCHANGED <<evars, cvars, hvars, svars, tvars>>

\* the body finishes
ExitNormally == \E i \in 1..Len(ctxs) : ExitContext(i, "exited")

\* the body raises: the error is thrown into the generator at its yield
\* and leaves it after the `finally` block
ExitRaising == \E i \in 1..Len(ctxs) : ExitContext(i, "raised")

\* lines 57-61: config.k = v and del config.k
AssignSetting ==
  /\ kres' = "AttributeError"
  /\ UNCHANGED <<cfg, ctxs, cfg0, nested>>
  /\ UNCHANGED <<evars, cvars, hvars, svars, tvars>>

ConfigNext ==
  \/ EnterContext
  \/ ExitNormally
  \/ ExitRaising
  \/ AssignSetting

ConfigSpec == ConfigInit /\ [][ConfigNext]_vars

\* ========================================================================
\* Claims
\* ========================================================================
Scenario3 == << Frame("outer", 0), Frame("middle", 0), Frame("inner", 0) >>

\* the last iteration ended with onecmd's error report
Reported == out # << >> /\ out[Len(out)].kind = "error"

\* C1: over a non-empty chain the focus always satisfies
\* 0 <= focus < len(chain).
C1_FocusInRange == Len(frames) > 0 => (0 <= index /\ index < Len(frames))

\* C1 witness: three frames, focus moved up to 0 and a further up left it.
C1_Witness ==
  /\ Len(frames) = 3 /\ index = 0 /\ line.cmd = "u" /\ out = << >> /\ ncmds = 2

UnknownReported ==
  line.cmd = "x" => (pc = "loop" /\ out = default(line).out)

C4_EofTerminates == eof ~> (pc # "loop")

UpDownEffect ==
  /\ line'.cmd = "u" =>
       /\ index' = Max(0, index - 1)
       /\ index = 0 => (index' = index /\ out' = << >>)
       /\ index' # index => out' = show_context(frames', index', msg')
  /\ line'.cmd = "d" =>
       /\ index' = Min(Len(frames) - 1, index + 1)
       /\ index = Len(frames) - 1 => (index' = index /\ out' = << >>)
       /\ index' # index => out' = show_context(frames', index', msg')

\* C5 as stated: in every session state up sets focus to max(0, focus-1)
\* and down to min(len-1, focus+1), no-ops at the ends, and a move reprints
\* the list view.
C5_UpDownEverywhere == [][UpDownEffect]_vars

\* C5 amended: in every session state over a non-empty chain up sets focus
\* to max(0, focus-1) and down to min(len-1, focus+1), no-ops at the ends,
\* and a move reprints the list view with the new focus; over an empty
\* chain both leave the focus at -1.
C5_UpDownNonEmpty ==
  [][/\ Len(frames) > 0 => UpDownEffect
     /\ (Len(frames) = 0 /\ line'.cmd \in {"u", "d"}) =>
          (index' = -1 /\ out' = << >>)]_vars

\* C5 witness: the first command, up, moved the focus of a 3-frame session
\* from 2 to 1 and reprinted the list view.
C5_Witness ==
  /\ Len(frames) = 3 /\ ncmds = 1 /\ line.cmd = "u" /\ index = 1
  /\ out = show_context(frames, 1, msg)

\* C6: a session over n frames starts with focus n-1; over
\* [outer, middle, inner] it starts at 2, a single up gives 1 and a
\* following quit ends the loop.
C6_StartsInnermost ==
  [][/\ ncmds = 0 => index = Len(frames) - 1
     /\ (frames = Scenario3 /\ ncmds = 0) => index = 2
     /\ (frames = Scenario3 /\ ncmds = 0 /\ line'.cmd = "u") => index' = 1
     /\ (frames = Scenario3 /\ ncmds = 1 /\ line.cmd = "u" /\ line'.cmd = "q") =>
          (index = 1 /\ index' = 1 /\ pc' = "stopped")]_vars

\* C6 witness: [outer, middle, inner], up then quit: stopped with focus 1.
C6_Witness ==
  /\ frames = Scenario3 /\ ncmds = 2 /\ line.cmd = "q" /\ pc = "stopped"
  /\ index = 1

\* the list view the documentation describes: frames 0..focus only
ListUpToFocus(fr, idx, m) ==
  [i \in 1..Min(idx + 1, Len(fr)) |->
     OutLine("context", IF i - 1 = idx THEN "*" ELSE " ", fr[i], << >>)]
    \o << OutLine("msg", " ", NoFrame, <<m>>) >>

\* C7: list prints the contexts of frames 0..focus, the focused one marked,
\* then the message; frames after the focus are not printed.
C7_ListUpToFocus ==
  line.cmd = "l" => out = ListUpToFocus(frames, index, msg)

\* C8: frames_from_traceback returns one Frame per link, the i-th wrapping
\* the i-th link's context with that link's recorded line, oldest first.
C8_OnePerLink ==
  (cin.fn = "traceback" /\ cpc = "done") =>
    /\ Len(cresult) = Len(cin.tb)
    /\ \A i \in 1..Len(cin.tb) :
         cresult[i] = [frame |-> cin.tb[i].tb_frame, lineno |-> cin.tb[i].tb_lineno]

\* C8 witness: a 3-link chain was collected, one link of which records a
\* line other than the one its context is executing now.
C8_Witness ==
  /\ cin.fn = "traceback" /\ cpc = "done" /\ Len(cresult) = 3
  /\ \E i \in 1..3 : cin.tb[i].tb_lineno # F_lineno(cin.tb[i].tb_frame)

ExpectedStack ==
  IF cin.depth < Len(cin.stack)
    THEN Reverse([i \in 1..(Len(cin.stack) - cin.depth) |->
                    [frame |-> cin.stack[i + cin.depth],
                     lineno |-> F_lineno(cin.stack[i + cin.depth])]])
    ELSE << >>

\* C9 as stated: the result is the stack from k levels above the collector
\* outward, oldest first; the collector is never the first Frame, and not
\* in the result for k >= 1; a stack too shallow gives the empty sequence.
C9_NeverCollectorFirst ==
  (cin.fn = "callstack" /\ cpc = "done") =>
    /\ cresult = ExpectedStack
    /\ cresult # << >> => cresult[1].frame # "collector"
    /\ cin.depth >= 1 => \A i \in 1..Len(cresult) : cresult[i].frame # "collector"

\* C9 amended: the result is the stack from k levels above the collector
\* outward, oldest first; for k >= 1 the collector is not in the result;
\* for k = 0 it is the last Frame, hence the first one only when the
\* collector is the only frame of the stack; a stack too shallow gives the
\* empty sequence.
C9_CollectorSkipped ==
  (cin.fn = "callstack" /\ cpc = "done") =>
    /\ cresult = ExpectedStack
    /\ (cresult # << >> /\ (cin.depth >= 1 \/ Len(cin.stack) > 1)) =>
         cresult[1].frame # "collector"
    /\ cin.depth >= 1 => \A i \in 1..Len(cresult) : cresult[i].frame # "collector"
    /\ cin.depth = 0 => cresult[Len(cresult)].frame = "collector"

\* C9 witness: depth 2 on a stack of the collector and three callers gives
\* the two outermost callers, oldest first.
C9_Witness ==
  /\ cin.fn = "callstack" /\ cpc = "done" /\ cin.depth = 2
  /\ cin.stack = <<"collector", "inner", "middle", "outer">>
  /\ cresult = << Frame("outer", 0), Frame("middle", 0) >>

\* C10: everything write_html writes from program data (error
\* representation, frame contexts and location lines, source lines, names
\* and values of locals) is escaped: no literal '<' or '>' of the data
\* reaches the sink.
C10_AllDataEscaped ==
  \A i \in 1..Len(hout) : \A j \in 1..Len(hout[i].text) :
    hout[i].text[j] \notin {"<", ">"}

\* ------------------------------------------------------------------------
\* Source reconstruction
\* ------------------------------------------------------------------------
\* the call returned a reconstruction of lines it read
Reconstructed ==
  /\ spc = "done"
  /\ sres.exc = "none"
  /\ LineOf(sin.file, sin.firstlineno) # << >>

\* C13: source reconstruction never raises, whatever the file holds and
\* wherever the first line and the cursor are, and returns the
\* 'not available' sentinel whenever the first line cannot be read.
C13_SourceNeverRaises ==
  spc = "done" =>
    /\ sres.exc = "none"
    /\ LineOf(sin.file, sin.firstlineno) = << >> => sres.text = NotAvailable

\* leading whitespace of a line, in columns
IndentOf(l) == Len(l) - Len(LStrip(l))

BlankLine(l) == l # << >> /\ Strip(l) = << >>

\* a code line at indentation w
CodeLineAt(l, w) == l # << >> /\ ~BlankLine(l) /\ IndentOf(l) = w

\* the number of the definition line: the first line from n on that is
\* not a decorator line at indentation w
RECURSIVE DefLineNo(_, _, _)
DefLineNo(file, n, w) ==
  IF CodeLineAt(LineOf(file, n), w) /\ LineOf(file, n)[w + 1] = "@"
    THEN DefLineNo(file, n + 1, w)
    ELSE n

\* the number of the last body line of the definition at line n: the body
\* is the run of blank lines and of lines indented deeper than w
RECURSIVE BodyEnd(_, _, _)
BodyEnd(file, n, w) ==
  LET l == LineOf(file, n + 1)
  IN  IF l # << >> /\ (BlankLine(l) \/ IndentOf(l) > w)
        THEN BodyEnd(file, n + 1, w)
        ELSE n

\* the file holds, from line `first` on, a function at indentation w:
\* decorator lines, the definition line, the body, and then the end of the
\* file or a code line at indentation <= w
FunctionAt(file, first) ==
  LET l1 == LineOf(file, first)
      w  == IndentOf(l1)
      d  == DefLineNo(file, first, w)
      e  == BodyEnd(file, d, w)
      t  == LineOf(file, e + 1)
  IN  /\ CodeLineAt(l1, w)
      /\ CodeLineAt(LineOf(file, d), w)
      /\ ~StartsWith(LStrip(LineOf(file, d)), "#")
      /\ t # << >> => ~StartsWith(LStrip(t), "#")
      /\ e > d => ~EndsWith(RStrip(LineOf(file, e)), "\\")

\* the line as the reconstruction shows it: de-indented by w, without its
\* line end
Shown(l, w) == IF BlankLine(l) THEN << >> ELSE RStrip(PyFrom(l, w))

\* lines first..last of the file, each as the reconstruction shows it,
\* without the blank lines at the end
RECURSIVE ShownLines(_, _, _, _)
ShownLines(file, first, last, w) ==
  IF last < first THEN << >>
  ELSE IF BlankLine(LineOf(file, last)) THEN ShownLines(file, first, last - 1, w)
  ELSE [i \in 1..(last - first + 1) |-> Shown(LineOf(file, first + i - 1), w)]

\* the output line is the file line, or the file line under the sentinel
SameLine(outl, shown, marked) ==
  \/ outl = shown
  \/ marked /\ shown # << >> /\ RStrip(outl) = RStrip(<<">">> \o Tail(shown))

\* C14: for a function at indentation w with N >= 0 decorator lines the
\* reconstruction is the N decorator lines verbatim (de-indented by w),
\* then the definition line and the body lines, in file order, none
\* skipped or duplicated; a single-line function without decorators gives
\* exactly that line, trimmed.
C14_AllLinesInOrder ==
  (Reconstructed /\ FunctionAt(sin.file, sin.firstlineno)
     /\ ~BlankLine(LineOf(sin.file, sin.lineno))) =>
    LET w     == IndentOf(LineOf(sin.file, sin.firstlineno))
        d     == DefLineNo(sin.file, sin.firstlineno, w)
        e     == BodyEnd(sin.file, d, w)
        want  == ShownLines(sin.file, sin.firstlineno, e, w)
        got   == SplitLines(sres.text)
    IN  /\ Len(got) = Len(want)
        /\ \A i \in 1..Len(want) :
             LET n == sin.firstlineno + i - 1
             IN  SameLine(got[i], want[i], n = sin.lineno /\ n > d)
        /\ (d = sin.firstlineno /\ e = d) =>
             sres.text = Strip(LineOf(sin.file, d))

\* how many of the lines are not empty
RECURSIVE CodeLines(_)
CodeLines(ls) ==
  IF ls = << >> THEN 0
  ELSE (IF Strip(Head(ls)) = << >> THEN 0 ELSE 1) + CodeLines(Tail(ls))

\* C17: when the cursor line lies inside the reconstructed span (a
\* decorator line, the definition line or a body line), exactly one output
\* line begins with the sentinel '>', it is the cursor line, and apart from
\* the sentinel its text is the cursor line's text.
C17_CursorMarkedOnce ==
  LET file == sin.file
      w    == IndentOf(LineOf(file, sin.firstlineno))
      d    == DefLineNo(file, sin.firstlineno, w)
      e    == BodyEnd(file, d, w)
      got  == SplitLines(sres.text)
      marked == { i \in 1..Len(got) : StartsWith(got[i], ">") }
  IN  (/\ Reconstructed
       /\ FunctionAt(file, sin.firstlineno)
       /\ sin.firstlineno <= sin.lineno /\ sin.lineno <= e
       /\ ~BlankLine(LineOf(file, sin.lineno))) =>
        /\ Cardinality(marked) = 1
        /\ \A i \in marked :
             /\ Strip(Tail(got[i])) = Strip(LineOf(file, sin.lineno))
             /\ CodeLines(SubSeq(got, 1, i - 1)) =
                  CodeLines([k \in 1..(sin.lineno - sin.firstlineno)
                               |-> LineOf(file, sin.firstlineno + k - 1)])

\* a comment line at indentation <= w
CommentUpTo(l, w) == IndentOf(l) <= w /\ StartsWith(LStrip(l), "#")

\* a non-blank character within the first w + 1 columns
EndsBlock(l, w) == \E i \in 1..Min(w + 1, Len(l)) : l[i] \notin White

Continues(l) == EndsWith(RStrip(l), "\\")

\* the stopping line of the forward scan from line n on: the first line
\* that is not a comment at indentation <= w and is empty, or ends the
\* block while the line before it does not end with the continuation marker
RECURSIVE StopLine(_, _, _)
StopLine(file, n, w) ==
  LET l == LineOf(file, n)
  IN  IF ~CommentUpTo(l, w)
         /\ (l = << >> \/ (EndsBlock(l, w) /\ ~Continues(LineOf(file, n - 1))))
        THEN n
        ELSE StopLine(file, n + 1, w)

\* lines first..last as they are included: a comment at indentation <= w
\* re-indented to w, every line de-indented by w, the cursor line after the
\* definition line d under the sentinel
RECURSIVE IncludedText(_, _, _, _, _, _)
IncludedText(file, first, last, w, d, cursor) ==
  IF last < first THEN << >>
  ELSE LET l  == LineOf(file, last)
           l2 == IF last > d /\ CommentUpTo(l, w) THEN Spaces(w) \o LStrip(l) ELSE l
       IN  IncludedText(file, first, last - 1, w, d, cursor)
             \o (IF last > d /\ last = cursor THEN <<">">> \o PyFrom(l2, w + 1)
                 ELSE PyFrom(l2, w))

\* C18: after the definition line the scan includes lines in file order
\* and stops at the first line that is empty, or that ends the block (a
\* non-blank character within its first w + 1 columns) when the line before
\* it did not end with the continuation marker; a line after a
\* continuation marker is included whatever its indentation; a comment at
\* indentation <= w is re-indented to w and included; no line at or after
\* the stopping line is in the result.
C18_ScanStopsAtBlockEnd ==
  Reconstructed =>
    LET file == sin.file
        w    == IndentOf(LineOf(file, sin.firstlineno))
        d    == DefLineNo(file, sin.firstlineno, w)
        stop == StopLine(file, d + 1, w)
    IN  sres.text =
          RStrip(IncludedText(file, sin.firstlineno, stop - 1, w, d, sin.lineno))

\* ------------------------------------------------------------------------
\* HTML rendering
\* ------------------------------------------------------------------------
\* the writes of the sink that belong to frame k of `frames`
WritesOf(k) == SelectSeq(hout, LAMBDA w : w.k = k)

PartsOf(k, part) == SelectSeq(hout, LAMBDA w : w.k = k /\ w.part = part)

\* write_html has stopped: it returned, or an error left it
HtmlStopped == hpc \in {"done", "died"}

\* the section of frame k is written whole, up to its closing rule
SectionWritten(k) ==
  LET ws == WritesOf(k)
  IN  /\ Len(ws) >= 5
      /\ ws[1].part = "location"
      /\ ws[Len(ws)] = W("markup", k, <<"<hr/>\n">>)
      /\ Len(PartsOf(k, "location")) = 1

PartRank(part) ==
  CASE part = "location" -> 1
    [] part = "source"   -> 2
    [] part = "row"      -> 3
    [] OTHER             -> 0

\* C11: for a chain of n frames write_html writes, in this order, the
\* banner with the list of the n one-line contexts (oldest first), then
\* exactly n sections, innermost frame first, each made of the location
\* line, then the source, then the locals table; the sink is flushed only
\* after the last section.
C11_BannerThenSections ==
  LET fr == frames_from_traceback(hin.tb)
      n  == Len(fr)
  IN  /\ hpc \notin {"idle", "start"} =>
           /\ Len(hout) >= 5
           /\ \A i \in 1..5 : hout[i].k = 0
           /\ hout[4] = W("ident", 0,
                Join(<<"\n">>, << hin.repr >> \o [i \in 1..n |-> context(fr[i])]))
           /\ \A i \in 6..Len(hout) : \A j \in i..Len(hout) :
                /\ hout[j].k # 0 => (hout[i].k # 0 /\ hout[i].k >= hout[j].k)
                /\ (hout[i].k = hout[j].k /\ PartRank(hout[j].part) # 0)
                     => PartRank(hout[i].part) <= PartRank(hout[j].part)
           /\ \A i \in 6..Len(hout) : hout[i].k \in 0..n
      /\ HtmlStopped => \A k \in 1..n : SectionWritten(k)
      /\ hflushed => (hpc = "done" /\ \A k \in 1..n : SectionWritten(k))

\* the write wraps its text in the "error" span
InErrorSpan(w) ==
  /\ Len(w.text) >= 2
  /\ w.text[1] = "<span class=\"error\"> "
  /\ w.text[Len(w.text)] = "</span>\n"

\* the text a browser shows for the markup: tags dropped, entities decoded
Shows(s) ==
  LET t == SelectSeq(s, LAMBDA c : c \notin {"<b>", "</b>"})
  IN  [i \in 1..Len(t) |-> IF t[i] = "&lt;" THEN "<"
                           ELSE IF t[i] = "&gt;" THEN ">" ELSE t[i]]

\* C12: in every frame's section the cursor line is wrapped in exactly one
\* "error" span, no other source line is wrapped, and the span's inner text
\* (the sentinel removed) is the stripped text of the frame's cursor line.
C12_CursorInOneSpan ==
  \A k \in 1..Len(hframes) :
    SectionWritten(k) =>
      LET src   == PartsOf(k, "source")
          spans == { i \in 1..Len(src) : InErrorSpan(src[i]) }
      IN  /\ Cardinality(spans) = 1
          /\ \A i \in spans :
               Strip(Shows(SubSeq(src[i].text, 2, Len(src[i].text) - 1)))
                 = Strip(getline(hframes[k], hframes[k].lineno))

\* str() of a local of the frame fails
HasBadLocal(f) ==
  \E i \in 1..Len(F_locals(f.frame)) : F_locals(f.frame)[i][2] = BadValue

\* C19: when stringifying a local's value fails, "ERROR" stands for the
\* value and rendering goes on: the row of that local is written, so are
\* the rows of the other locals and the sections of the other frames, and
\* write_html completes with the final flush.
C19_ErrorRowThenCompletes ==
  /\ \A k \in 1..Len(hframes) :
       SectionWritten(k) =>
         LET items == F_locals(hframes[k].frame)
             rows  == PartsOf(k, "row")
         IN  /\ Len(rows) = Len(items)
             /\ \A i \in 1..Len(items) :
                  rows[i].text =
                    <<"<tr><td>", items[i][1], "</td><td>">>
                      \o (IF items[i][2] = BadValue THEN <<"ERROR">>
                          ELSE Escape(items[i][2]))
                      \o <<"</td></tr>\n">>
  /\ (HtmlStopped /\ \E k \in 1..Len(hframes) :
                       HasBadLocal(hframes[k]) /\ PartsOf(k, "row") # << >>) =>
       /\ hpc = "done"
       /\ hflushed
       /\ \A k \in 1..Len(hframes) : SectionWritten(k)

\* ------------------------------------------------------------------------
\* Name completion
\* ------------------------------------------------------------------------
\* the value the dotted path leads to from the namespace, << >> if a
\* segment cannot be resolved
RECURSIVE Resolve(_, _)
Resolve(objs, path) ==
  LET obj == Lookup(objs, Head(path))
  IN  IF obj = << >> THEN << >>
      ELSE IF Len(path) = 1 THEN obj
      ELSE Resolve(Attributes(obj[1]), Tail(path))

\* the names the typed text may be completed to
Completions(fo, text) ==
  LET base == SubSeq(text, 1, Len(text) - 1)
      last == text[Len(text)]
      among == IF base = << >> THEN MergedNamespace(fo)
               ELSE IF Resolve(MergedNamespace(fo), base) = << >> THEN << >>
               ELSE Attributes(Resolve(MergedNamespace(fo), base)[1])
  IN  { Append(base, among[i][1]) :
          i \in { j \in 1..Len(among) : NameStartsWith(among[j][1], last) } }

\* C15: name completion never produces an error; if the first segment is
\* not in the focused frame's merged namespace (locals over globals) or a
\* later segment cannot be resolved among the members of the value before
\* it, the result is the empty list; otherwise it is exactly the names with
\* the typed prefix, each prefixed by the resolved dotted base.
C15_CompletionNeverFails ==
  ttext # << >> =>
    /\ tres.exc = "none"
    /\ PyInRange(frames, index) =>
         tres.names = Completions(PyGet(frames, index).frame, ttext)
    /\ ~PyInRange(frames, index) => tres.names = {}

\* ------------------------------------------------------------------------
\* Configuration overrides
\* ------------------------------------------------------------------------
\* the step exits context c: every setting it overrode has the value it
\* had just before entry (a setting it introduced is not set), and the
\* settings it did not name are untouched
ExitRestores(c) ==
  /\ \A k \in DOMAIN c.data :
       c.before[k] # c.data[k] => cfg'[k] = c.before[k]
  /\ \A k \in ConfigKeys \ DOMAIN c.data : cfg'[k] = cfg[k]

EveryExitRestores ==
  \A i \in 1..Len(ctxs) :
    (ctxs' = RemoveAt(ctxs, i) /\ kres' \in {"exited", "raised"})
      => ExitRestores(ctxs[i])

\* C16 (as stated): every exit, normal or raising, restores what the
\* context overrode, removes what it introduced and leaves the rest, and
\* after any sequence of entries and exits the configuration after the last
\* exit is the configuration before the first entry.
C16_AnyOrderRestores ==
  /\ [][EveryExitRestores]_vars
  /\ [](kres # "AttributeError in exit")
  /\ []((ctxs = << >> /\ kres \in {"exited", "raised"}) => cfg = cfg0)

\* C16 (amended): every exit, normal or raising, restores what the context
\* overrode, removes what it introduced and leaves the rest; when every
\* exit leaves the context entered last, an exit gives back the
\* configuration of that context's entry, and the configuration after the
\* last exit is the configuration before the first entry.
C16_NestedRestores ==
  /\ [][EveryExitRestores]_vars
  /\ [](kres # "AttributeError in exit")
  /\ [][(nested' /\ Len(ctxs') < Len(ctxs)) => cfg' = ctxs[Len(ctxs)].before]_vars
  /\ []((ctxs = << >> /\ nested /\ kres \in {"exited", "raised"}) => cfg = cfg0)

\* the inner of two nested contexts was left by an error and the outer
\* one's overrides are in force again
C16_Witness ==
  /\ Len(ctxs) = 1
  /\ nested
  /\ kres = "raised"
  /\ cfg = Override(ctxs[1].before, ctxs[1].data)
  /\ cfg # cfg0
  /\ cfg["extra"] # EMPTY

\* ------------------------------------------------------------------------
\* What the commands change
\* ------------------------------------------------------------------------
\* the command an iteration runs: an empty line runs the last command again
Effective(l, last) == IF l = EmptyLine THEN last ELSE l

\* C20: across any sequence of commands the chain and the message never
\* change; the focus changes only through up and down, by exactly one per
\* command; list, show-source, locals, eval, pretty-eval, unrecognized input
\* and failing commands leave chain, message and focus unchanged.
C20_OnlyUpDownMoveFocus ==
  [][/\ frames' = frames
     /\ msg' = msg
     /\ index' # index =>
          /\ Effective(line', lastcmd).cmd \in {"u", "d"}
          /\ raised' = "none"
          /\ Effective(line', lastcmd).cmd = "u" => index' = index - 1
          /\ Effective(line', lastcmd).cmd = "d" => index' = index + 1]_vars

\* in a 3-frame session up moved the focus from 2 to 1 and then a failing
\* eval left it there
C20_Witness ==
  /\ Len(frames) = 3
  /\ ncmds = 2
  /\ line = Line("p", "1/0")
  /\ raised = "ZeroDivisionError"
  /\ index = 1

====
